---- MODULE Spec2Model ----
\* Model of scripts/analyze_je.py: the per-column analyses (date range,
\* numeric summary, Benford leading digits) and the report pipeline
\* (main -> build_summary) writing its artifacts into an output directory.
EXTENDS Integers, Sequences, FiniteSets, TLC

\* ------------------------------------------------------------------ bounds
MaxRows == 3        \* longest column analysed on its own
MaxRuns == 2        \* invocations of main in one behaviour

\* ------------------------------------------------------------------ values
\* A cell of a pandas Series. Every cell is a record of the same shape:
\*   k      "nan"  missing float            "zero" 0.0
\*          "fin"  finite non-zero float    "inf"  +/- infinity
\*          "none" missing text             "str"  text
\*          "nat"  missing timestamp        "ts"   timestamp
\*   neg    sign of a float
\*   digits shortest decimal digits of a finite float, first one non-zero
\*   exp    decimal exponent of the first digit: value = d.ddd * 10^exp
\*   s      the text of a "str" cell
\* A timestamp is a "ts" cell holding nanoseconds since the epoch in
\* neg/digits/exp (an integer-valued decimal).
Cell(k, neg, digits, exp, s) ==
    [k |-> k, neg |-> neg, digits |-> digits, exp |-> exp, s |-> s]

NaN == Cell("nan", FALSE, <<>>, 0, "")
Zero == Cell("zero", FALSE, <<>>, 0, "")
Inf(neg) == Cell("inf", neg, <<>>, 0, "")
Fin(neg, digits, exp) == Cell("fin", neg, digits, exp, "")
None == Cell("none", FALSE, <<>>, 0, "")
Str(s) == Cell("str", FALSE, <<>>, 0, s)
NaT == Cell("nat", FALSE, <<>>, 0, "")
Ts(neg, digits, exp) == Cell("ts", neg, digits, exp, "")
TsZero == Cell("ts", FALSE, <<>>, 0, "")

\* pandas dtypes of the columns a parsed sheet can hold
NumericDtype == "float64"
ObjectDtype == "object"
DatetimeDtype == "datetime64[ns]"

\* series.isna() / series.notna(), element-wise
isna(c) == c.k \in {"nan", "none", "nat"}
notna(c) == ~isna(c)

\* ---------------------------------------------------------------- ordering
\* Order of two decimal magnitudes given as (digits, exp), digits compared
\* left to right with missing digits read as 0.
DigitAt(ds, i) == IF i <= Len(ds) THEN ds[i] ELSE 0
DigitsLess(a, b) ==
    \E i \in 1..(Len(a) + Len(b)) :
        /\ DigitAt(a, i) < DigitAt(b, i)
        /\ \A j \in 1..(i - 1) : DigitAt(a, j) = DigitAt(b, j)

IsZeroVal(c) == c.k = "zero" \/ (c.k = "ts" /\ c.digits = <<>>)
IsInfVal(c) == c.k = "inf"

MagLess(a, b) ==
    IF IsZeroVal(b) THEN FALSE
    ELSE IF IsZeroVal(a) THEN TRUE
    ELSE IF IsInfVal(a) THEN FALSE
    ELSE IF IsInfVal(b) THEN TRUE
    ELSE IF a.exp # b.exp THEN a.exp < b.exp
    ELSE DigitsLess(a.digits, b.digits)

SignOf(c) == IF IsZeroVal(c) THEN 0 ELSE IF c.neg THEN -1 ELSE 1

\* a < b on non-missing floats or timestamps
Less(a, b) ==
    IF SignOf(a) # SignOf(b) THEN SignOf(a) < SignOf(b)
    ELSE IF SignOf(a) = 1 THEN MagLess(a, b)
    ELSE IF SignOf(a) = -1 THEN MagLess(b, a)
    ELSE FALSE

\* Series.min() / Series.max(): missing values are skipped
SeqRange(s) == {s[i] : i \in DOMAIN s}
Present(series) == SelectSeq(series, notna)
series_min(series) ==
    CHOOSE m \in SeqRange(Present(series)) :
        \A x \in SeqRange(Present(series)) : ~Less(x, m)
series_max(series) ==
    CHOOSE m \in SeqRange(Present(series)) :
        \A x \in SeqRange(Present(series)) : ~Less(m, x)

\* --------------------------------------------------------------- rendering
DigitChars == <<"0", "1", "2", "3", "4", "5", "6", "7", "8", "9">>
DigitChar(d) == DigitChars[d + 1]

RECURSIVE Repeat(_, _)
Repeat(ch, n) == IF n <= 0 THEN <<>> ELSE <<ch>> \o Repeat(ch, n - 1)

RECURSIVE DigitString(_)
DigitString(ds) ==
    IF ds = <<>> THEN <<>> ELSE <<DigitChar(Head(ds))>> \o DigitString(Tail(ds))

RECURSIVE NatString(_)
NatString(n) ==
    IF n < 10 THEN <<DigitChar(n)>>
    ELSE NatString(n \div 10) \o <<DigitChar(n % 10)>>

\* The exponent of a float in exponent notation: a sign and at least two digits.
ExpString(e) ==
    LET a == IF e < 0 THEN -e ELSE e
    IN <<"e", IF e < 0 THEN "-" ELSE "+">>
       \o (IF a < 10 THEN <<"0">> ELSE <<>>) \o NatString(a)

\* str(value) of a float, as a sequence of characters: the shortest digits
\* that round-trip, in positional notation when the decimal point falls at
\* position -3..16 (decpt = exp + 1) and in exponent notation otherwise.
str(v) ==
    LET sign == IF v.neg THEN <<"-">> ELSE <<>>
        n == Len(v.digits)
        decpt == v.exp + 1
    IN CASE v.k = "nan" -> <<"n", "a", "n">>
         [] v.k = "inf" -> sign \o <<"i", "n", "f">>
         [] v.k = "zero" -> sign \o <<"0", ".", "0">>
         [] OTHER ->
            IF decpt <= -4 \/ decpt > 16
            THEN sign \o <<DigitChar(v.digits[1])>>
                 \o (IF n > 1 THEN <<".">> \o DigitString(Tail(v.digits)) ELSE <<>>)
                 \o ExpString(v.exp)
            ELSE IF decpt <= 0
            THEN sign \o <<"0", ".">> \o Repeat("0", -decpt) \o DigitString(v.digits)
            ELSE IF decpt < n
            THEN sign \o DigitString(SubSeq(v.digits, 1, decpt)) \o <<".">>
                 \o DigitString(SubSeq(v.digits, decpt + 1, n))
            ELSE sign \o DigitString(v.digits) \o Repeat("0", decpt - n)
                 \o <<".", "0">>

\* text.lstrip(chars): drop the leading characters that are in chars
lstrip(text, chars) ==
    LET kept == {i \in DOMAIN text : text[i] \notin chars}
    IN IF kept = {} THEN <<>>
       ELSE SubSeq(text, CHOOSE i \in kept : \A j \in kept : i <= j, Len(text))

\* int(ch) of one character: its digit, or -1 for the ValueError int() raises
int(ch) ==
    IF \E d \in 0..9 : DigitChar(d) = ch
    THEN CHOOSE d \in 0..9 : DigitChar(d) = ch
    ELSE -1

\* value.abs()
abs(v) == [v EXCEPT !.neg = FALSE]

\* ------------------------------------------------------------- date range
\* pd.to_datetime(value, errors="coerce") of one value. Text parses when it is
\* one of the date texts below; a float is read as nanoseconds since the epoch
\* (fraction dropped) and is NaT when missing, infinite or outside the
\* representable range of about 9.2e18 ns; timestamps pass through.
DateTexts == {"2023-05-01", "2024-01-31"}
ParseText(s) ==
    IF s = "2023-05-01" THEN Ts(FALSE, <<1, 6, 8, 2, 8, 9, 9, 2>>, 18)
    ELSE Ts(FALSE, <<1, 7, 0, 6, 6, 5, 9, 2>>, 18)

StripZeros(ds) ==
    LET nonzero == {i \in DOMAIN ds : ds[i] # 0}
    IN IF nonzero = {} THEN <<>>
       ELSE SubSeq(ds, 1, CHOOSE i \in nonzero : \A j \in nonzero : j <= i)

to_datetime(c) ==
    CASE c.k \in {"ts", "nat"} -> c
      [] c.k = "str" -> IF c.s \in DateTexts THEN ParseText(c.s) ELSE NaT
      [] c.k = "zero" -> TsZero
      [] c.k = "fin" ->
            IF c.exp >= 19 THEN NaT
            ELSE IF c.exp < 0 THEN TsZero
            ELSE Ts(c.neg,
                    StripZeros(SubSeq(c.digits, 1,
                        IF c.exp + 1 < Len(c.digits) THEN c.exp + 1
                        ELSE Len(c.digits))),
                    c.exp)
      [] OTHER -> NaT

\* Timestamp.isoformat(): the ISO-8601 text of a timestamp
isoformat(t) == [iso |-> <<t.neg, t.digits, t.exp>>]

NoResult == [tag |-> "None"]

\* A column of a parsed sheet: its label, its pandas dtype and its values.
Column(name, dtype, values) == [name |-> name, dtype |-> dtype, values |-> values]

MapSeq(Op(_), s) == [i \in DOMAIN s |-> Op(s[i])]

\* date_range_of with the ratio test written "<=": half is no longer enough
date_range_of_strict(series, parsed, non_null) ==
    IF non_null = 0 THEN NoResult
    ELSE IF 2 * non_null <= Len(series.values) THEN NoResult
    ELSE [tag |-> "dict",
          non_null |-> non_null,
          min |-> isoformat(series_min(parsed)),
          max |-> isoformat(series_max(parsed))]

\* Lines 17-27, given the parsed values and how many of them are not NaT.
date_range_of(series, parsed, non_null) ==
    IF non_null = 0 THEN NoResult
    ELSE IF 2 * non_null < Len(series.values) THEN NoResult
    ELSE [tag |-> "dict",
          non_null |-> non_null,
          min |-> isoformat(series_min(parsed)),
          max |-> isoformat(series_max(parsed))]

parse_dates(series) ==
    IF series.dtype = DatetimeDtype THEN series.values
    ELSE MapSeq(to_datetime, series.values)

CountPresent(values) == Len(SelectSeq(values, notna))

detect_date_range(series) ==
    IF series.values = <<>> THEN NoResult
    ELSE date_range_of(series, parse_dates(series),
                       CountPresent(parse_dates(series)))

\* -------------------------------------------------------- numeric summary
is_numeric_dtype(series) == series.dtype = NumericDtype

\* Sums and means of floats are kept as the terms they are computed from: the
\* non-missing values in column order, and that sum over their count.
\* numeric_summary without its dtype test
numeric_summary_any_dtype(series) ==
    IF CountPresent(series.values) = 0 THEN NoResult
    ELSE [tag |-> "dict",
          non_null |-> CountPresent(series.values),
          mean |-> [sum_of |-> Present(series.values),
                    over |-> CountPresent(series.values)],
          min |-> series_min(series.values),
          max |-> series_max(series.values),
          sum |-> [sum_of |-> Present(series.values)]]

\* numeric_summary asking for more than one value
numeric_summary_two_values(series) ==
    IF ~is_numeric_dtype(series) THEN NoResult
    ELSE IF CountPresent(series.values) <= 1 THEN NoResult
    ELSE [tag |-> "dict",
          non_null |-> CountPresent(series.values),
          mean |-> [sum_of |-> Present(series.values),
                    over |-> CountPresent(series.values)],
          min |-> series_min(series.values),
          max |-> series_max(series.values),
          sum |-> [sum_of |-> Present(series.values)]]

numeric_summary(series) ==
    IF ~is_numeric_dtype(series) THEN NoResult
    ELSE IF CountPresent(series.values) = 0 THEN NoResult
    ELSE [tag |-> "dict",
          non_null |-> CountPresent(series.values),
          mean |-> [sum_of |-> Present(series.values),
                    over |-> CountPresent(series.values)],
          min |-> series_min(series.values),
          max |-> series_max(series.values),
          sum |-> [sum_of |-> Present(series.values)]]

\* ---------------------------------------------------------------- Benford
Digits19 == 1..9

\* benford_expected(): log10(1 + 1/digit), in thousandths
benford_expected == <<301, 176, 125, 97, 79, 67, 58, 51, 46>>

\* The lambda of leading_digit: int(str(value).lstrip("0.")[0]); -1 stands for
\* the exception raised by an empty string ([0]) or a non-digit (int()).
first_digit(value) ==
    LET text == lstrip(str(value), {"0", "."})
    IN IF text = <<>> THEN -1 ELSE int(text[1])

\* leading_digit(series): the digits Series, or raised when the lambda raises
Positive(v) == SignOf(v) = 1
apply_first_digit(digits) ==
    IF \E i \in DOMAIN digits : digits[i] = -1
    THEN [raised |-> TRUE, digits |-> <<>>]
    ELSE [raised |-> FALSE, digits |-> digits]
\* leading_digit without .abs(): negative values fall to the "> 0" filter
leading_digit_no_abs(series) ==
    IF ~is_numeric_dtype(series) THEN [raised |-> FALSE, digits |-> <<>>]
    ELSE apply_first_digit(
            MapSeq(first_digit, SelectSeq(Present(series.values), Positive)))

leading_digit(series) ==
    IF ~is_numeric_dtype(series) THEN [raised |-> FALSE, digits |-> <<>>]
    ELSE apply_first_digit(
            MapSeq(first_digit,
                   SelectSeq(MapSeq(abs, Present(series.values)), Positive)))

RECURSIVE SumOver(_, _)
SumOver(f, n) == IF n = 0 THEN 0 ELSE f[n] + SumOver(f, n - 1)

Raised == [tag |-> "raise"]

\* digits.value_counts().reindex(range(1, 10), fill_value=0)
value_counts(digits) ==
    [d \in Digits19 |-> Cardinality({i \in DOMAIN digits : digits[i] = d})]

\* One term of the chi-square sum, in thousandths (rounded down), for an
\* observed count and an expected count given in thousandths.
chi_term(observed, expected) ==
    ((1000 * observed - expected) * (1000 * observed - expected)) \div expected

\* Lines 65-80. percentages are kept as the pairs (count, total) they divide.
benford_dict(counts, total) ==
    [tag |-> "dict",
     total |-> total,
     chi_square |->
        IF total > 0
        THEN SumOver([d \in Digits19 |->
                        chi_term(counts[d], benford_expected[d] * total)], 9)
        ELSE 0,
     counts |-> counts,
     percentages |-> [d \in Digits19 |-> <<counts[d], total>>]]

benford_of(ld) ==
    IF ld.raised THEN Raised
    ELSE IF ld.digits = <<>> THEN NoResult
    ELSE benford_dict(value_counts(ld.digits), SumOver(value_counts(ld.digits), 9))

benford_summary(series) == benford_of(leading_digit(series))

\* ------------------------------------------------- the per-column loop body
\* dict[key] = value on an insertion-ordered dict kept as a sequence of
\* <<key, value>> pairs: replace in place when the key exists, else append.
DictSet(d, key, value) ==
    IF \E i \in DOMAIN d : d[i][1] = key
    THEN [i \in DOMAIN d |-> IF d[i][1] = key THEN <<key, value>> ELSE d[i]]
    ELSE Append(d, <<key, value>>)
DictKeys(d) == {d[i][1] : i \in DOMAIN d}
DictGet(d, key) == d[CHOOSE i \in DOMAIN d : d[i][1] = key][2]

\* nunique with dropna=False: missing counts as a value
nunique_keepna(series) == Cardinality(SeqRange(series.values))

\* series.nunique(dropna=True)
nunique(series) == Cardinality(SeqRange(Present(series.values)))

\* The accumulators the column loop of build_summary updates.
EmptyAcc ==
    [column_rows |-> <<>>, date_ranges |-> <<>>, numeric_summaries |-> <<>>,
     benford_rows |-> <<>>, raised |-> FALSE]

\* Lines 109-118: the ColumnStat row.
column_row(sheet_name, series) ==
    [sheet |-> sheet_name,
     column |-> series.name,
     dtype |-> series.dtype,
     non_null |-> Len(SelectSeq(series.values, notna)),
     nulls |-> Len(SelectSeq(series.values, isna)),
     unique |-> nunique(series)]

\* Lines 120-126: store a result under the column's name when there is one.
store_date(a, name, date_info) ==
    IF date_info.tag = "dict"
    THEN [a EXCEPT !.date_ranges = DictSet(@, name, date_info)]
    ELSE a
store_numeric(a, name, numeric_info) ==
    IF numeric_info.tag = "dict"
    THEN [a EXCEPT !.numeric_summaries = DictSet(@, name, numeric_info)]
    ELSE a

\* Lines 128-141: the Benford row, or the exception leaving the loop.
store_benford(a, sheet_name, name, info) ==
    IF info.tag = "raise" THEN [a EXCEPT !.raised = TRUE]
    ELSE IF info.tag = "dict"
    THEN [a EXCEPT !.benford_rows =
             Append(@, [sheet |-> sheet_name,
                        column |-> name,
                        total_values |-> info.total,
                        chi_square |-> info.chi_square,
                        digit_pct |-> info.percentages])]
    ELSE a

\* One iteration of "for column in df.columns". An exception in
\* benford_summary leaves the loop; raised records it.
column_step(a, sheet_name, series) ==
    IF a.raised THEN a
    ELSE store_benford(
            store_numeric(
               store_date(
                  [a EXCEPT !.column_rows = Append(@, column_row(sheet_name, series))],
                  series.name, detect_date_range(series)),
               series.name, numeric_summary(series)),
            sheet_name, series.name, benford_summary(series))

RECURSIVE column_loop(_, _, _)
column_loop(acc, sheet_name, columns) ==
    IF columns = <<>> THEN acc
    ELSE column_loop(column_step(acc, sheet_name, Head(columns)),
                     sheet_name, Tail(columns))

\* ------------------------------------------------------------------ state
VARIABLES
    \* the run of main / build_summary
    pc,            \* "idle" | "loop" | "parsed": where the process is
    excel_path,    \* args.input of the current (or last) run
    workbook,      \* the opened pd.ExcelFile
    summary,       \* build_summary's summary dict
    column_rows,   \* build_summary's column_rows list
    benford_rows,  \* build_summary's benford_rows list
    k,             \* index of the sheet the for loop is at
    df,            \* the sheet parsed last
    out_exists,    \* whether the output directory exists
    files,         \* the output directory: file name -> content
    exit,          \* how the last run ended
    runs,          \* runs started so far
    before,        \* the previous run's input, outcome and resulting files
    written,       \* names of the files the current run has written
    log,           \* the current run's parse and describe events, in order
    \* one column put through the loop body on its own
    series,        \* the column under analysis
    original,      \* the column it was derived from
    phase,         \* "new" | "analysed"
    acc,           \* the loop body's accumulators for series
    benford_info,  \* benford_summary(series)
    base           \* the Benford result of the original column

runvars == <<pc, excel_path, workbook, summary, column_rows, benford_rows, k, df,
             out_exists, files, exit, runs, before, written, log>>
colvars == <<series, original, phase, acc, benford_info, base>>
vars == <<runvars, colvars>>

\* ---------------------------------------------------------- column inputs
F100 == Fin(FALSE, <<1>>, 2)            \* 100.0
FNeg250 == Fin(TRUE, <<2, 5>>, 2)       \* -250.0
F005 == Fin(FALSE, <<5>>, -2)           \* 0.05
F25em7 == Fin(FALSE, <<2, 5>>, -7)      \* 2.5e-07
F95e16 == Fin(FALSE, <<9, 5>>, 16)      \* 9.5e+16
NumCells == {NaN, Zero, F100, FNeg250, F005, F25em7, F95e16, Inf(FALSE)}
TextCells == {None, Str("n/a"), Str("2023-05-01"), Str("2024-01-31")}
TsCells == {NaT, ParseText("2023-05-01"), ParseText("2024-01-31")}

SeqsUpTo(S, n) == UNION {[1..m -> S] : m \in 0..n}
Columns ==
    {Column("amount", NumericDtype, v) : v \in SeqsUpTo(NumCells, MaxRows)}
    \cup {Column("memo", ObjectDtype, v) : v \in SeqsUpTo(TextCells, MaxRows)}
    \cup {Column("posted", DatetimeDtype, v) : v \in SeqsUpTo(TsCells, MaxRows)}

IdleRun ==
    /\ pc = "idle"
    /\ excel_path = ""
    /\ workbook = [name |-> "", sheet_names |-> <<>>, sheets |-> <<>>]
    /\ summary = [workbook |-> "", sheet_count |-> 0, sheets |-> <<>>]
    /\ column_rows = <<>>
    /\ benford_rows = <<>>
    /\ k = 1
    /\ df = [rows |-> 0, columns |-> <<>>]
    /\ out_exists = FALSE
    /\ files = <<>>
    /\ exit = [status |-> "none", message |-> <<>>]
    /\ runs = 0
    /\ before = [path |-> "", status |-> "none", out_exists |-> FALSE, files |-> <<>>]
    /\ written = {}
    /\ log = <<>>

\* ------------------------------------------------ one column on its own
\* A column is put through the loop body of build_summary (Analyse). The other
\* three actions vary the input, not the program: they replace a numeric
\* column by its negation or by itself with a zero or missing value more or
\* fewer; base keeps the Benford result of the column started from.
InitCol ==
    /\ IdleRun
    /\ series \in Columns
    /\ original = series
    /\ phase = "new"
    /\ acc = EmptyAcc
    /\ benford_info = NoResult
    /\ base = NoResult

\* The loop body of build_summary (lines 108-141) applied to series.
Analyse ==
    /\ phase = "new"
    /\ phase' = "analysed"
    /\ acc' = column_step(EmptyAcc, "JE", series)
    /\ benford_info' = benford_summary(series)
    /\ base' = IF series = original THEN benford_summary(series) ELSE base
    /\ UNCHANGED <<series, original, runvars>>

\* The same numeric column with every value negated.
Negate(c) == IF c.k \in {"fin", "inf"} THEN [c EXCEPT !.neg = ~c.neg] ELSE c
NegateAll ==
    /\ phase = "analysed"
    /\ is_numeric_dtype(series)
    /\ series' = [series EXCEPT !.values = MapSeq(Negate, @)]
    /\ phase' = "new"
    /\ UNCHANGED <<original, acc, benford_info, base, runvars>>

\* The same numeric column with one more zero or missing value.
InsertAt(s, i, x) == SubSeq(s, 1, i - 1) \o <<x>> \o SubSeq(s, i, Len(s))
RemoveAt(s, i) == SubSeq(s, 1, i - 1) \o SubSeq(s, i + 1, Len(s))
InsertBlank ==
    /\ phase = "analysed"
    /\ is_numeric_dtype(series)
    /\ Len(series.values) < MaxRows
    /\ \E i \in 1..(Len(series.values) + 1), x \in {NaN, Zero} :
          series' = [series EXCEPT !.values = InsertAt(@, i, x)]
    /\ phase' = "new"
    /\ UNCHANGED <<original, acc, benford_info, base, runvars>>

\* The same numeric column with one zero or missing value fewer.
RemoveBlank ==
    /\ phase = "analysed"
    /\ is_numeric_dtype(series)
    /\ \E i \in DOMAIN series.values :
          /\ series.values[i] \in {NaN, Zero}
          /\ series' = [series EXCEPT !.values = RemoveAt(@, i)]
    /\ phase' = "new"
    /\ UNCHANGED <<original, acc, benford_info, base, runvars>>

NextCol == Analyse \/ NegateAll \/ InsertBlank \/ RemoveBlank
SpecCol == InitCol /\ [][NextCol]_vars

\* ------------------------------------------------------------ input files
\* The workbooks on disk. A parsed sheet is a DataFrame: rows and columns.
DataFrame(rows, columns) == [rows |-> rows, columns |-> columns]
Journal ==
    DataFrame(2, <<Column("date", ObjectDtype,
                          <<Str("2024-01-31"), Str("2023-05-01")>>),
                   Column("amount", NumericDtype, <<F100, FNeg250>>)>>)
Balances ==
    DataFrame(2, <<Column("balance", NumericDtype, <<Zero, NaN>>),
                   Column("ref", NumericDtype, <<NaN, NaN>>)>>)
Notes == DataFrame(1, <<Column("memo", ObjectDtype, <<Str("n/a")>>)>>)
Postings ==
    DataFrame(2, <<Column("posted", DatetimeDtype,
                          <<ParseText("2024-01-31"), NaT>>),
                   Column("amount", NumericDtype, <<F005, F95e16>>),
                   Column("fee", NumericDtype, <<Zero, F25em7>>)>>)
EmptySheet == DataFrame(0, <<>>)
Overflowed == DataFrame(1, <<Column("amount", NumericDtype, <<Inf(FALSE)>>)>>)

\* pd.ExcelFile(path): the sheet names in workbook order and, per name, the
\* table that parse() returns.
ExcelFile(name, sheet_names, first, second) ==
    [name |-> name,
     sheet_names |-> sheet_names,
     sheets |-> [n \in SeqRange(sheet_names) |->
                    IF n = sheet_names[1] THEN first ELSE second]]
InputPaths ==
    {"je.xlsx", "gl.xlsx", "one.xlsx", "notes.xlsx", "tb.xlsx", "blank.xlsx",
     "inf.xlsx"}
InputFiles ==
    [p \in InputPaths |->
        CASE p = "je.xlsx" -> ExcelFile(p, <<"JE", "GL">>, Journal, Balances)
          [] p = "gl.xlsx" -> ExcelFile(p, <<"GL", "JE">>, Postings, Notes)
          [] p = "one.xlsx" -> ExcelFile(p, <<"JE">>, Postings, Postings)
          [] p = "notes.xlsx" -> ExcelFile(p, <<"Notes">>, Notes, Notes)
          [] p = "tb.xlsx" -> ExcelFile(p, <<"TB", "JE">>, Balances, Notes)
          [] p = "blank.xlsx" -> ExcelFile(p, <<"JE", "Sheet2">>, Journal, EmptySheet)
          [] OTHER -> ExcelFile(p, <<"GL", "JE">>, Balances, Overflowed)]
Paths == DOMAIN InputFiles \cup {"missing.xlsx"}

\* ------------------------------------------------------------ the reports
\* WriteFiles opening existing files for append
WriteFilesAppend(fs, new) ==
    [n \in DOMAIN fs \cup DOMAIN new |->
        IF n \in DOMAIN new
        THEN IF n \in DOMAIN fs THEN [appended |-> <<fs[n], new[n]>>] ELSE new[n]
        ELSE fs[n]]

\* path.write_text(content) / to_csv(path) for each file of new (name ->
\* content): the file is created, or its content replaced
WriteFiles(fs, new) ==
    [n \in DOMAIN fs \cup DOMAIN new |-> IF n \in DOMAIN new THEN new[n] ELSE fs[n]]

\* df.describe(include="all"): per column its count and, by dtype, its
\* extremes or its number of distinct values.
describe_column(c) ==
    [column |-> c.name,
     count |-> CountPresent(c.values),
     unique |-> IF c.dtype = ObjectDtype THEN nunique(c) ELSE -1,
     min |-> IF c.dtype # ObjectDtype /\ CountPresent(c.values) > 0
             THEN series_min(c.values) ELSE NaN,
     max |-> IF c.dtype # ObjectDtype /\ CountPresent(c.values) > 0
             THEN series_max(c.values) ELSE NaN]
describe(frame) == MapSeq(describe_column, frame.columns)

DescribeName(sheet_name) == "describe_" \o sheet_name \o ".csv"

MdLine(kind, text, n, info) ==
    [line |-> kind, text |-> text, n |-> n, info |-> info]
BenfordSection ==
    <<MdLine("## Benfords Law Results", "", 0, NoResult),
      MdLine("", "", 0, NoResult),
      MdLine("Benford analysis is computed on numeric columns using leading digits.",
             "", 0, NoResult),
      MdLine("See benford_summary.csv for per-column distributions and chi-square scores.",
             "", 0, NoResult),
      MdLine("", "", 0, NoResult)>>

RECURSIVE DictLines(_, _)
DictLines(kind, d) ==
    IF d = <<>> THEN <<>>
    ELSE <<MdLine(kind, Head(d)[1], Head(d)[2].non_null, Head(d)[2])>>
         \o DictLines(kind, Tail(d))

RECURSIVE SheetLines(_)
SheetLines(sheets) ==
    IF sheets = <<>> THEN <<>>
    ELSE LET sheet == Head(sheets)
         IN <<MdLine("## Sheet: ", sheet.sheet, 0, NoResult),
              MdLine("- Rows: ", "", sheet.row_count, NoResult),
              MdLine("- Columns: ", "", sheet.column_count, NoResult)>>
            \o (IF sheet.date_ranges # <<>>
                THEN <<MdLine("- Date ranges:", "", 0, NoResult)>>
                     \o DictLines("  - date range", sheet.date_ranges)
                ELSE <<>>)
            \o (IF sheet.numeric_summaries # <<>>
                THEN <<MdLine("- Numeric summaries:", "", 0, NoResult)>>
                     \o DictLines("  - numeric summary", sheet.numeric_summaries)
                ELSE <<>>)
            \o <<MdLine("", "", 0, NoResult)>>
            \o SheetLines(Tail(sheets))

md_lines(name, summ, brows) ==
    <<MdLine("# Journal Entry Summary for ", name, 0, NoResult),
      MdLine("", "", 0, NoResult),
      MdLine("Total sheets: ", "", summ.sheet_count, NoResult),
      MdLine("", "", 0, NoResult)>>
    \o SheetLines(summ.sheets)
    \o (IF brows # <<>> THEN BenfordSection ELSE <<>>)

\* (the backquotes and the apostrophe of the source's texts are left out)
index_lines ==
    <<"# Output Files", "",
      "This folder is generated by the journal entry analysis workflow.", "",
      "- summary.json: machine-readable summary",
      "- summary.md: human-readable summary",
      "- column_stats.csv: per-column statistics",
      "- describe_<sheet>.csv: pandas describe output per sheet",
      "- benford_summary.csv: Benfords Law leading digit distribution per column">>

\* ------------------------------------------------------------------- main
Init ==
    /\ IdleRun
    /\ series = Column("amount", NumericDtype, <<>>)
    /\ original = series
    /\ phase = "new"
    /\ acc = EmptyAcc
    /\ benford_info = NoResult
    /\ base = NoResult

\* sheet_at walking the sheet names backwards
sheet_at_reversed(book, i) == book.sheet_names[Len(book.sheet_names) - i + 1]

\* The sheet the for loop visits at its i-th iteration.
sheet_at(book, i) == book.sheet_names[i]

\* main without the existence check: build_summary creates the directory and
\* pd.ExcelFile raises on the missing file
main_unchecked(path) ==
    /\ pc = "idle"
    /\ runs < MaxRuns
    /\ runs' = runs + 1
    /\ excel_path' = path
    /\ before' = [path |-> excel_path, status |-> exit.status,
                  out_exists |-> out_exists, files |-> files]
    /\ written' = {}
    /\ log' = <<<<"build_summary", path>>>>
    /\ out_exists' = TRUE
    /\ IF path \notin DOMAIN InputFiles
       THEN /\ exit' = [status |-> "exception", message |-> <<"FileNotFoundError">>]
            /\ UNCHANGED <<pc, workbook, summary, column_rows, benford_rows, k>>
       ELSE /\ workbook' = InputFiles[path]
            /\ summary' = [workbook |-> InputFiles[path].name,
                           sheet_count |-> Len(InputFiles[path].sheet_names),
                           sheets |-> <<>>]
            /\ column_rows' = <<>>
            /\ benford_rows' = <<>>
            /\ k' = 1
            /\ pc' = "loop"
            /\ exit' = [status |-> "running", message |-> <<>>]
    /\ UNCHANGED <<df, files, colvars>>

\* main(): the existence check, then the head of build_summary (mkdir, open
\* the workbook, fresh summary and row lists).
main(path) ==
    /\ pc = "idle"
    /\ runs < MaxRuns
    /\ runs' = runs + 1
    /\ excel_path' = path
    /\ before' = [path |-> excel_path, status |-> exit.status,
                  out_exists |-> out_exists, files |-> files]
    /\ written' = {}
    /\ IF path \notin DOMAIN InputFiles
       THEN /\ exit' = [status |-> "error",
                        message |-> <<"Input file not found: ", path>>]
            /\ log' = <<>>
            /\ UNCHANGED <<pc, workbook, summary, column_rows, benford_rows, k,
                           df, out_exists, files>>
       ELSE /\ log' = <<<<"build_summary", path>>>>
            /\ out_exists' = TRUE
            /\ workbook' = InputFiles[path]
            /\ summary' = [workbook |-> InputFiles[path].name,
                           sheet_count |-> Len(InputFiles[path].sheet_names),
                           sheets |-> <<>>]
            /\ column_rows' = <<>>
            /\ benford_rows' = <<>>
            /\ k' = 1
            /\ pc' = "loop"
            /\ exit' = [status |-> "running", message |-> <<>>]
            /\ UNCHANGED <<df, files>>
    /\ UNCHANGED colvars

Main == \E path \in Paths : main(path)

\* df = workbook.parse(sheet_name)
ParseSheet ==
    /\ pc = "loop"
    /\ k <= Len(workbook.sheet_names)
    /\ df' = workbook.sheets[sheet_at(workbook, k)]
    /\ log' = Append(log, <<"parse", sheet_at(workbook, k)>>)
    /\ pc' = "parsed"
    /\ UNCHANGED <<excel_path, workbook, summary, column_rows, benford_rows, k,
                   out_exists, files, exit, runs, before, written, colvars>>

\* Lines 98-105 and 143-146 for the parsed sheet, given the column loop's
\* result a: the append to summary["sheets"] and the describe file. An
\* exception from leading_digit, or from describe() on a sheet without
\* columns, ends the run.
finish_sheet(sheet_name, a) ==
    IF a.raised \/ df.columns = <<>>
    THEN /\ pc' = "idle"
         /\ exit' = [status |-> "exception", message |-> <<"ValueError">>]
         /\ UNCHANGED <<summary, column_rows, benford_rows, k, files, written, log>>
    ELSE /\ column_rows' = a.column_rows
         /\ benford_rows' = a.benford_rows
         /\ summary' = [summary EXCEPT !.sheets =
               Append(@, [sheet |-> sheet_name,
                          row_count |-> df.rows,
                          column_count |-> Len(df.columns),
                          columns |-> [i \in DOMAIN df.columns |-> df.columns[i].name],
                          date_ranges |-> a.date_ranges,
                          numeric_summaries |-> a.numeric_summaries])]
         /\ files' = WriteFiles(files,
                        [n \in {DescribeName(sheet_name)} |-> [csv |-> describe(df)]])
         /\ written' = written \cup {DescribeName(sheet_name)}
         /\ log' = Append(log, <<"describe", sheet_name>>)
         /\ k' = k + 1
         /\ pc' = "loop"
         /\ UNCHANGED exit

\* The loop body of "for sheet_name in workbook.sheet_names" after parse().
AnalyzeSheet ==
    /\ pc = "parsed"
    /\ finish_sheet(sheet_at(workbook, k),
                    column_loop([EmptyAcc EXCEPT !.column_rows = column_rows,
                                                 !.benford_rows = benford_rows],
                                sheet_at(workbook, k), df.columns))
    /\ UNCHANGED <<excel_path, workbook, df, out_exists, runs, before, colvars>>

\* After the loop: column_stats.csv, summary.json, benford_summary.csv when
\* there are Benford rows, summary.md and index.md, then exit 0.
WriteReports ==
    /\ pc = "loop"
    /\ k > Len(workbook.sheet_names)
    /\ files' = WriteFiles(files,
            [n \in {"column_stats.csv", "summary.json", "summary.md", "index.md"}
                    \cup (IF benford_rows # <<>> THEN {"benford_summary.csv"} ELSE {})
             |-> CASE n = "column_stats.csv" -> [csv |-> column_rows]
                   [] n = "summary.json" -> [json |-> summary]
                   [] n = "benford_summary.csv" -> [csv |-> benford_rows]
                   [] n = "summary.md" ->
                        [lines |-> md_lines(workbook.name, summary, benford_rows)]
                   [] OTHER -> [lines |-> index_lines]])
    /\ written' = written
                    \cup {"column_stats.csv", "summary.json", "summary.md", "index.md"}
                    \cup (IF benford_rows # <<>> THEN {"benford_summary.csv"} ELSE {})
    /\ pc' = "idle"
    /\ exit' = [status |-> "ok", message |-> <<>>]
    /\ UNCHANGED <<excel_path, workbook, summary, column_rows, benford_rows, k, df,
                   out_exists, runs, before, log, colvars>>

Next == Main \/ ParseSheet \/ AnalyzeSheet \/ WriteReports
Spec == Init /\ [][Next]_vars

\* ------------------------------------------------------ column properties
\* What the properties compare the code's results with, counted directly.
Count(s, Test(_)) == Cardinality({i \in DOMAIN s : Test(s[i])})
ParsesAsDate(c) == to_datetime(c).k = "ts"
ParsedStamps(col) == {to_datetime(col.values[i]) : i \in DOMAIN col.values} \ {NaT}
NonZeroPresent(c) == notna(c) /\ c.k # "zero"
Blank(c) == c.k \in {"nan", "zero"}
HasDateRange == series.name \in DictKeys(acc.date_ranges)
HasNumericSummary == series.name \in DictKeys(acc.numeric_summaries)
BenfordRowsOf(name) ==
    {i \in DOMAIN acc.benford_rows : acc.benford_rows[i].column = name}

\* C2: detect_date_range returns nothing when no value parses as a date or
\* when fewer than half of all values (missing ones included) parse; for any
\* other non-empty column it returns the number of parsed values and the
\* smallest and largest parsed timestamps. Exactly half is enough.
DateRangeGuard ==
    phase = "analysed" =>
        LET n == Count(series.values, ParsesAsDate)
            stamps == ParsedStamps(series)
        IN IF n = 0 \/ 2 * n < Len(series.values)
           THEN ~HasDateRange
           ELSE /\ HasDateRange
                /\ LET info == DictGet(acc.date_ranges, series.name)
                   IN /\ info.non_null = n
                      /\ \E lo \in stamps, hi \in stamps :
                            /\ \A x \in stamps : ~Less(x, lo) /\ ~Less(hi, x)
                            /\ info.min = isoformat(lo)
                            /\ info.max = isoformat(hi)
\* a two-value text column of which exactly one value parses, with a date range
DateRangeHalfWitness ==
    /\ phase = "analysed"
    /\ series.dtype = ObjectDtype
    /\ Len(series.values) = 2
    /\ Count(series.values, ParsesAsDate) = 1
    /\ HasDateRange

\* C3: a numeric summary is stored under the column's name exactly when the
\* column's dtype is numeric and it has at least one non-missing value, and
\* its non_null is then the number of non-missing values.
NumericSummaryIff ==
    phase = "analysed" =>
        /\ HasNumericSummary <=>
              (series.dtype = NumericDtype /\ Count(series.values, notna) > 0)
        /\ HasNumericSummary =>
              DictGet(acc.numeric_summaries, series.name).non_null
                 = Count(series.values, notna)
\* a numeric column with a missing and a non-missing value, summarised
NumericSummaryWitness ==
    /\ phase = "analysed"
    /\ series.dtype = NumericDtype
    /\ Count(series.values, isna) > 0
    /\ Count(series.values, notna) > 0
    /\ HasNumericSummary

\* C4: the Benford outcome of a numeric column (no result, or the per-digit
\* counts and total) is the same after negating every value and after
\* inserting or removing zero and missing values; a column of only zero and
\* missing values has no Benford result.
BenfordFoldsSign ==
    (phase = "analysed" /\ series.dtype = NumericDtype) =>
        /\ benford_info.tag = base.tag
        /\ benford_info.tag = "dict" =>
              /\ benford_info.counts = base.counts
              /\ benford_info.total = base.total
        /\ (\A i \in DOMAIN series.values : Blank(series.values[i])) =>
              /\ benford_info = NoResult
              /\ acc.benford_rows = <<>>
\* a column with a negative value, negated and resized, with a Benford result
BenfordFoldsSignWitness ==
    /\ phase = "analysed"
    /\ benford_info.tag = "dict"
    /\ Len(series.values) # Len(original.values)
    /\ \E i \in DOMAIN original.values :
          original.values[i].k = "fin" /\ original.values[i].neg
    /\ \E i \in DOMAIN series.values :
          series.values[i].k = "fin" /\ ~series.values[i].neg
             /\ Negate(series.values[i]) \in SeqRange(original.values)

\* C5: for every non-missing non-zero value of a numeric column the leading
\* digit is in 1..9 and is the value's first significant digit; the counts
\* over 1..9 sum to total, and total is the number of such values.
LeadingDigitIsFirstSignificant ==
    (phase = "analysed" /\ series.dtype = NumericDtype) =>
        /\ benford_info.tag # "raise"
        /\ \A i \in DOMAIN series.values :
              NonZeroPresent(series.values[i]) =>
                 /\ first_digit(abs(series.values[i])) \in 1..9
                 /\ series.values[i].digits # <<>>
                 /\ first_digit(abs(series.values[i])) = series.values[i].digits[1]
        /\ benford_info.tag = "dict" =>
              /\ SumOver(benford_info.counts, 9) = benford_info.total
              /\ benford_info.total = Count(series.values, NonZeroPresent)

\* The same with infinite values set aside: on finite values the digit read
\* off the rendering is the first significant one, in either notation.
LeadingDigitOfFinite ==
    (phase = "analysed" /\ series.dtype = NumericDtype
       /\ \A i \in DOMAIN series.values : series.values[i].k # "inf") =>
        /\ benford_info.tag # "raise"
        /\ \A i \in DOMAIN series.values :
              NonZeroPresent(series.values[i]) =>
                 first_digit(abs(series.values[i])) = series.values[i].digits[1]
        /\ benford_info.tag = "dict" =>
              /\ SumOver(benford_info.counts, 9) = benford_info.total
              /\ benford_info.total = Count(series.values, NonZeroPresent)

\* C10: a column with a Benford row also has a numeric summary, and the
\* row's total is at most that summary's non_null; a column without a
\* numeric summary has no Benford row.
BenfordImpliesNumericSummary ==
    phase = "analysed" =>
        /\ \A i \in BenfordRowsOf(series.name) :
              /\ HasNumericSummary
              /\ acc.benford_rows[i].total_values
                    <= DictGet(acc.numeric_summaries, series.name).non_null
        /\ ~HasNumericSummary => BenfordRowsOf(series.name) = {}
\* a column with a zero and a non-zero value: Benford total below non_null
BenfordBelowNonNullWitness ==
    /\ phase = "analysed"
    /\ BenfordRowsOf(series.name) # {}
    /\ HasNumericSummary
    /\ \E i \in BenfordRowsOf(series.name) :
          acc.benford_rows[i].total_values
             < DictGet(acc.numeric_summaries, series.name).non_null


\* ---------------------------------------------------------- run properties
Done == pc = "idle" /\ exit.status = "ok"
Book == InputFiles[excel_path]

\* The (sheet, column) pairs of a workbook, sheets in workbook order and
\* columns in table order, read off the input rather than the reports.
RECURSIVE PairsFrom(_, _)
PairsFrom(book, i) ==
    IF i > Len(book.sheet_names) THEN <<>>
    ELSE [j \in DOMAIN book.sheets[book.sheet_names[i]].columns |->
             [sheet |-> book.sheet_names[i],
              col |-> book.sheets[book.sheet_names[i]].columns[j]]]
         \o PairsFrom(book, i + 1)
Qualifies(pair) ==
    /\ pair.col.dtype = NumericDtype
    /\ \E i \in DOMAIN pair.col.values : NonZeroPresent(pair.col.values[i])
Labels(pairs) == [i \in DOMAIN pairs |-> <<pairs[i].sheet, pairs[i].col.name>>]
RowLabels(rows) == [i \in DOMAIN rows |-> <<rows[i].sheet, rows[i].column>>]
HasBenfordFile == "benford_summary.csv" \in DOMAIN files
HasBenfordSection == BenfordSection[1] \in SeqRange(files["summary.md"].lines)
IsSheetLine(l) == l.line = "## Sheet: "

\* C1: when the input path does not exist main exits with the error message
\* and nothing else happens: build_summary is not called, the output
\* directory is not created, and no file is written or changed.
MissingInputAborts ==
    (runs > 0 /\ excel_path \notin InputPaths) =>
        /\ pc = "idle"
        /\ exit = [status |-> "error",
                   message |-> <<"Input file not found: ", excel_path>>]
        /\ log = <<>>
        /\ written = {}
        /\ out_exists = before.out_exists
        /\ files = before.files
\* a first run on a missing input: no output directory afterwards
MissingInputWitness ==
    /\ runs = 1
    /\ excel_path \notin InputPaths
    /\ exit.status = "error"
    /\ ~out_exists

\* C6: after a completed run benford_summary.csv is present only if a column
\* of the workbook just analysed qualified, it then holds one row per
\* qualifying (sheet, column) pair of that workbook, and summary.md has its
\* Benford section in exactly that case.
BenfordFileOnlyIfQualified ==
    Done =>
        /\ HasBenfordFile =>
              /\ SelectSeq(PairsFrom(Book, 1), Qualifies) # <<>>
              /\ RowLabels(files["benford_summary.csv"].csv)
                    = Labels(SelectSeq(PairsFrom(Book, 1), Qualifies))
        /\ HasBenfordSection <=> HasBenfordFile

\* C7: a second run on the same input into the same output directory leaves
\* the same files with the same contents as the first.
RerunIsIdempotent ==
    (pc = "idle" /\ runs >= 2 /\ before.path = excel_path
       /\ before.status = "ok" /\ exit.status = "ok") =>
        files = before.files
\* two completed runs on one workbook with a Benford file
RerunWitness ==
    /\ pc = "idle"
    /\ runs >= 2
    /\ before.path = excel_path
    /\ before.status = "ok"
    /\ exit.status = "ok"
    /\ "benford_summary.csv" \in written
    /\ Len(workbook.sheet_names) = 2

ColumnStatRows ==
    Done =>
        /\ Len(files["column_stats.csv"].csv) = Len(PairsFrom(Book, 1))
        /\ \A p \in SeqRange(Labels(PairsFrom(Book, 1))) :
              Cardinality({i \in DOMAIN files["column_stats.csv"].csv :
                             RowLabels(files["column_stats.csv"].csv)[i] = p}) = 1
        /\ \A i \in DOMAIN files["column_stats.csv"].csv :
              LET row == files["column_stats.csv"].csv[i]
              IN /\ \E j \in DOMAIN files["summary.json"].json.sheets :
                       /\ files["summary.json"].json.sheets[j].sheet = row.sheet
                       /\ row.non_null + row.nulls
                             = files["summary.json"].json.sheets[j].row_count
                 /\ row.unique <= row.non_null
\* a completed run whose column_stats.csv has a row with missing values
ColumnStatWitness ==
    /\ Done
    /\ Len(files["column_stats.csv"].csv) > 2
    /\ \E i \in DOMAIN files["column_stats.csv"].csv :
          /\ files["column_stats.csv"].csv[i].nulls > 0
          /\ files["column_stats.csv"].csv[i].non_null > 0

====
